---- MODULE Spec2Model ----
(***************************************************************************)
(* State-machine model of src/cv+.py: one execution of the script is a     *)
(* "run"; the checkpoint file survives from run to run.  A run probes for  *)
(* a clean exit node, looks up the author profile, loads the checkpoint,   *)
(* fetches the publications one by one with a checkpoint write after each, *)
(* writes the two output artifacts and removes the checkpoint.             *)
(***************************************************************************)
EXTENDS Integers, Sequences, FiniteSets, TLC

\* ---------------------------------------------------------------- bounds
MaxPubs   == 2   \* largest publication count a profile lookup returns
MaxFaults == 1   \* file-system calls that raise in one run
MaxWords  == 2   \* words of a venue text given to the classifier
MaxAuthors == 2  \* names of an author text given to the formatter
LongPubs  == 16  \* publication count of the long listing

\* ----------------------------------------------------- program constants
MAX_RETRIES         == 8
CIRCUIT_RENEW_AFTER == 15
MAX_PROBE_ATTEMPTS  == 15

\* A text is the sequence of its characters.
CONFERENCE_KEYWORDS ==
    {<<"c", "o", "n", "f", "e", "r", "e", "n", "c", "e">>,
     <<"p", "r", "o", "c", "e", "e", "d", "i", "n", "g", "s">>,
     <<"w", "o", "r", "k", "s", "h", "o", "p">>,
     <<"s", "y", "m", "p", "o", "s", "i", "u", "m">>,
     <<"m", "e", "e", "t", "i", "n", "g">>,
     <<"n", "i", "p", "s">>,
     <<"n", "e", "u", "r", "i", "p", "s">>,
     <<"i", "c", "m", "l">>,
     <<"c", "v", "p", "r">>,
     <<"i", "c", "c", "v">>,
     <<"e", "c", "c", "v">>,
     <<"a", "a", "a", "i">>,
     <<"i", "j", "c", "a", "i">>,
     <<"i", "c", "l", "r">>,
     <<"a", "c", "m">>,
     <<"i", "e", "e", "e">>,
     <<"i", "c", "c", "p", "s">>,
     <<"a", "c", "c">>,
     <<"c", "d", "c">>,
     <<"d", "s", "c", "c">>,
     <<"m", "e", "c", "c">>,
     <<"a", "l", "l", "e", "r", "t", "o", "n">>,
     <<"s", "i", "a", "m">>,
     <<"a", "s", "i", "l", "o", "m", "a", "r">>,
     <<"h", "p", "e", "c">>}

PREPRINT_KEYWORDS ==
    {<<"a", "r", "x", "i", "v">>,
     <<"p", "r", "e", "p", "r", "i", "n", "t">>,
     <<"b", "i", "o", "r", "x", "i", "v">>,
     <<"m", "e", "d", "r", "x", "i", "v">>,
     <<"s", "s", "r", "n">>}

VARIABLES
    pc,                \* position of the script; "idle" before the first run
    file,              \* content of CHECKPOINT_FILE
    probe,             \* loop variable of the probe loop
    clean_node,
    attempt,           \* loop variable of the retry loop in progress
    author,            \* result of the profile lookup
    total,
    start_idx,
    idx,               \* 1-based loop variable of the publication loop
    journal_papers,
    conference_papers,
    preprints,
    caller,            \* which call of save_checkpoint is in progress
    cv_written,        \* OUTPUT_CV_FORMAT written by this run
    json_written,      \* OUTPUT_JSON written by this run
    \* the environment and the history of the run, for stating properties
    net,               \* network operations issued by the last step that issued any
    unrotated,         \* items processed since the last proactive rotation of the run
    call,              \* last call of a pure helper: its argument and its result
    faults,            \* file-system calls that raised in this run
    fetched,           \* 1-based indexes scholarly.fill(pub) was called for, in this run
    first_fetch,       \* the first of them, 0 while there is none
    resume,            \* what the run made of the checkpoint it loaded
    outcome,           \* how the last call of process_publication ended
    saved,             \* how the last call of save_checkpoint ended
    ended_at,          \* where the run was interrupted or crashed
    file_at_start,     \* the checkpoint file as this run found it, until it is loaded
    prior              \* how the previous run went

accs   == <<journal_papers, conference_papers, preprints>>
loops  == <<probe, clean_node, attempt>>
outs   == <<cv_written, json_written>>
trail  == <<fetched, first_fetch>>
past   == <<file_at_start, prior>>
vars   == <<pc, file, loops, author, total, start_idx, idx, accs, caller, outs,
            net, unrotated, call, faults, trail, resume, outcome, saved, ended_at,
            past>>

\* --------------------------------------------------------- file contents
Fields == {"next_idx", "total", "journal_papers", "conference_papers", "preprints"}

\* A checkpoint file: kind "missing" (no file), "garbage" (not parseable as
\* JSON: an empty or partly written file included), "nondict" (JSON that is
\* no object) or "dict" (a JSON object holding the fields in has).
FileOf(kind, has, n, t, j, c, p) ==
    [kind |-> kind, has |-> has, next_idx |-> n, total |-> t,
     journal_papers |-> j, conference_papers |-> c, preprints |-> p]

Missing == FileOf("missing", {}, 0, 0, <<>>, <<>>, <<>>)
Garbage == FileOf("garbage", {}, 0, 0, <<>>, <<>>, <<>>)
NonDict == FileOf("nondict", {}, 0, 0, <<>>, <<>>, <<>>)
None    == FileOf("none", {}, 0, 0, <<>>, <<>>, <<>>)

\* What json.dump writes in save_checkpoint (saved_at is never read back).
Dumped(n, t, j, c, p) == FileOf("dict", Fields, n, t, j, c, p)

\* json.load followed by the f-string that reads data['next_idx'] and
\* data['total'], all inside the try: any exception gives None.
load_checkpoint(f) ==
    IF f.kind = "missing" THEN None
    ELSE IF f.kind # "dict" THEN None
    ELSE IF ~({"next_idx", "total"} \subseteq f.has) THEN None
    ELSE f

\* SaveArgs with the index of the item in place of the next index.
SaveArgs_ThisIndex ==
    CASE caller = "fail" -> Dumped(0, 0, <<>>, <<>>, <<>>)
      [] caller = "init" -> Dumped(start_idx, total, journal_papers,
                                   conference_papers, preprints)
      [] OTHER           -> Dumped(idx - 1, total, journal_papers,
                                   conference_papers, preprints)

\* The arguments of the save_checkpoint call in progress.
SaveArgs ==
    CASE caller = "fail" -> Dumped(0, 0, <<>>, <<>>, <<>>)
      [] caller = "init" -> Dumped(start_idx, total, journal_papers,
                                   conference_papers, preprints)
      [] OTHER           -> Dumped(idx, total, journal_papers,
                                   conference_papers, preprints)

\* ----------------------------------------------------------------- texts
UpperCase == <<"A", "B", "C", "D", "E", "F", "G", "H", "I", "J", "K", "L", "M", "N", "O", "P", "Q", "R", "S", "T", "U", "V", "W", "X", "Y", "Z">>
LowerCase == <<"a", "b", "c", "d", "e", "f", "g", "h", "i", "j", "k", "l", "m", "n", "o", "p", "q", "r", "s", "t", "u", "v", "w", "x", "y", "z">>

\* str.lower()
lower(s) ==
    [i \in DOMAIN s |->
        IF \E k \in DOMAIN UpperCase : UpperCase[k] = s[i]
        THEN LowerCase[CHOOSE k \in DOMAIN UpperCase : UpperCase[k] = s[i]]
        ELSE s[i]]

\* k in s, for texts
Contains(s, k) ==
    \E i \in 0..(Len(s) - Len(k)) : SubSeq(s, i + 1, i + Len(k)) = k

\* sep.join(list)
RECURSIVE Join(_, _)
Join(sep, list) ==
    IF list = <<>> THEN <<>>
    ELSE IF Len(list) = 1 THEN list[1]
    ELSE list[1] \o sep \o Join(sep, Tail(list))

\* ------------------------------------------------------------ classifier
\* The venue texts of the publications the fetches return.
Venues == {<<>>, <<"I", "E", "E", "E">>, <<"a", "r", "X", "i", "v">>,
           <<"a", "r", "X", "i", "v", " ", "I", "E", "E", "E">>}

is_preprint(venue) ==
    LET lowered == lower(venue) IN \E k \in PREPRINT_KEYWORDS : Contains(lowered, k)

is_conference(venue) ==
    LET lowered == lower(venue) IN \E k \in CONFERENCE_KEYWORDS : Contains(lowered, k)

\* Category with the conference test before the preprint test.
Category_ConferenceFirst(venue) ==
    IF is_conference(venue) THEN "conference"
    ELSE IF is_preprint(venue) THEN "preprint"
    ELSE "journal"

Category(venue) ==
    IF is_preprint(venue) THEN "preprint"
    ELSE IF is_conference(venue) THEN "conference"
    ELSE "journal"

\* --------------------------------------------------------- the formatter
\* The index of the first character of s from position i on that is no
\* blank, Len(s) + 1 when there is none.
RECURSIVE SkipSpaces(_, _)
SkipSpaces(s, i) ==
    IF i <= Len(s) /\ s[i] = " " THEN SkipSpaces(s, i + 1) ELSE i

\* The index of the first blank of s from position i on, Len(s) + 1 when
\* there is none.
RECURSIVE SkipWord(_, _)
SkipWord(s, i) ==
    IF i <= Len(s) /\ s[i] # " " THEN SkipWord(s, i + 1) ELSE i

\* str.strip()
RECURSIVE rstrip(_)
rstrip(s) ==
    IF s # <<>> /\ s[Len(s)] = " " THEN rstrip(SubSeq(s, 1, Len(s) - 1)) ELSE s

strip(s) == rstrip(SubSeq(s, SkipSpaces(s, 1), Len(s)))

\* str.split(): the words of s, blanks between them.
RECURSIVE split(_)
split(s) ==
    LET i == SkipSpaces(s, 1)
        j == SkipWord(s, i)
    IN  IF i > Len(s) THEN <<>>
        ELSE <<SubSeq(s, i, j - 1)>> \o split(SubSeq(s, j, Len(s)))

\* A match of the pattern \s+and\s+ that starts at position i of s: the
\* position after the match, 0 when there is no match at i.
MatchAnd(s, i) ==
    LET j == SkipSpaces(s, i)
    IN  IF /\ i <= Len(s) /\ s[i] = " "
           /\ j + 3 <= Len(s)
           /\ SubSeq(s, j, j + 2) = <<"a", "n", "d">>
           /\ s[j + 3] = " "
        THEN SkipSpaces(s, j + 3)
        ELSE 0

\* re.split(r'\s+and\s+', s): the leftmost match first.
RECURSIVE SplitAnd(_)
SplitAnd(s) ==
    LET starts == {i \in 1..Len(s) : MatchAnd(s, i) # 0}
    IN  IF starts = {} THEN <<s>>
        ELSE LET i == CHOOSE k \in starts : \A m \in starts : k <= m
             IN  <<SubSeq(s, 1, i - 1)>>
                    \o SplitAnd(SubSeq(s, MatchAnd(s, i), Len(s)))

\* The body of the loop over the names in format_authors_initials.
FormatName(name) ==
    LET parts == split(name)
    IN  IF Len(parts) = 1 THEN parts[1]
        ELSE LET initials == [i \in 1..(Len(parts) - 1) |-> <<parts[i][1], ".">>]
             IN  Join(<<" ">>, initials) \o <<" ">> \o parts[Len(parts)]

\* format_authors_initials that joins the names without the final "and".
format_authors_initials_NoAnd(authors_str) ==
    IF authors_str = <<>> THEN <<>>
    ELSE LET pieces    == SplitAnd(authors_str)
             formatted == [i \in DOMAIN pieces |-> FormatName(strip(pieces[i]))]
         IN  Join(<<",", " ">>, formatted)

format_authors_initials(authors_str) ==
    IF authors_str = <<>> THEN <<>>
    ELSE LET pieces    == SplitAnd(authors_str)
             authors   == [i \in DOMAIN pieces |-> strip(pieces[i])]
             formatted == [i \in DOMAIN authors |-> FormatName(authors[i])]
         IN  IF Len(formatted) > 1
             THEN Join(<<",", " ">>, SubSeq(formatted, 1, Len(formatted) - 1))
                     \o <<",", " ", "a", "n", "d", " ">>
                     \o formatted[Len(formatted)]
             ELSE formatted[1]

\* format_journal_entry_cv_style that writes the colon of the pages also
\* when there are none.
format_journal_entry_cv_style_ColonAlways(pub_data) ==
    LET authors == format_authors_initials(pub_data.authors)
        entry   == authors \o <<".", " ", "\"">> \o pub_data.title
                      \o <<"\"", " ", "*", "*">> \o pub_data.venue \o <<"*", "*">>
        entry1  == IF pub_data.volume # <<>>
                   THEN entry \o <<" ">> \o pub_data.volume ELSE entry
        entry2  == IF pub_data.year # <<>>
                   THEN entry1 \o <<" ", "(">> \o pub_data.year \o <<")">> ELSE entry1
    IN  entry2 \o <<":", " ">> \o pub_data.pages \o <<".">>

\* format_journal_entry_cv_style: entry after each of the three tests.
format_journal_entry_cv_style(pub_data) ==
    LET authors == format_authors_initials(pub_data.authors)
        entry   == authors \o <<".", " ", "\"">> \o pub_data.title
                      \o <<"\"", " ", "*", "*">> \o pub_data.venue \o <<"*", "*">>
        entry1  == IF pub_data.volume # <<>>
                   THEN entry \o <<" ">> \o pub_data.volume ELSE entry
        entry2  == IF pub_data.year # <<>>
                   THEN entry1 \o <<" ", "(">> \o pub_data.year \o <<")">> ELSE entry1
        entry3  == IF pub_data.pages # <<>>
                   THEN entry2 \o <<":", " ">> \o pub_data.pages ELSE entry2
    IN  entry3 \o <<".">>

\* ------------------------------------------------------------- the years
\* pub_year of the publication at 1-based position p of the listing, as a
\* number: 0 stands for the empty text, which sorts below every year.
YearOf(p) == IF p % 2 = 0 THEN 0 ELSE 2020 + p

\* pub_data of the publication at position p.
PubData(p) == [pub |-> p, year |-> YearOf(p)]

\* list.sort(key=year, reverse=True): stable, descending.
RECURSIVE InsertDesc(_, _)
InsertDesc(s, x) ==
    IF s = <<>> THEN <<x>>
    ELSE IF Head(s).year >= x.year THEN <<Head(s)>> \o InsertDesc(Tail(s), x)
    ELSE <<x>> \o s

RECURSIVE SortByYear(_)
SortByYear(s) ==
    IF s = <<>> THEN <<>>
    ELSE InsertDesc(SortByYear(SubSeq(s, 1, Len(s) - 1)), s[Len(s)])

\* ------------------------------------------------------------------ Init
\* Checkpoint files a first run may find: none, an unparseable one, JSON
\* that is no object, and objects that lack one field or all of them.
Partial(has) ==
    FileOf("dict", has, IF "next_idx" \in has THEN 1 ELSE 0,
           IF "total" \in has THEN 1 ELSE 0, <<>>, <<>>, <<>>)

InitialFiles ==
    {Missing, Garbage, NonDict, Partial({})} \cup {Partial(Fields \ {f}) : f \in Fields}

NoOutcome == [item |-> 0, how |-> "none"]
NoAuthor  == [found |-> FALSE, npubs |-> 0]
NoCall    == [fn |-> "none", arg |-> <<>>, out |-> <<>>]
NoPrior   == [end |-> "none", file |-> Missing, fetched |-> {}, total |-> 0]
Ended     == {"idle", "done", "failed", "crashed", "killed"}

\* The module-level state of a script that has not run yet.
FreshMemory ==
    /\ clean_node' = FALSE
    /\ attempt' = 0
    /\ author' = NoAuthor
    /\ start_idx' = 0
    /\ idx' = 0
    /\ journal_papers' = <<>>
    /\ conference_papers' = <<>>
    /\ preprints' = <<>>
    /\ caller' = "none"
    /\ cv_written' = FALSE
    /\ json_written' = FALSE
    /\ net' = <<>>
    /\ unrotated' = 0
    /\ faults' = 0
    /\ first_fetch' = 0
    /\ resume' = "none"
    /\ outcome' = NoOutcome
    /\ saved' = "none"

\* The state before the first run, the checkpoint file being one of files.
InitWith(files) ==
    /\ pc = "idle"
    /\ file \in files
    /\ probe = 0
    /\ clean_node = FALSE
    /\ attempt = 0
    /\ author = NoAuthor
    /\ total = 0
    /\ start_idx = 0
    /\ idx = 0
    /\ journal_papers = <<>>
    /\ conference_papers = <<>>
    /\ preprints = <<>>
    /\ caller = "none"
    /\ cv_written = FALSE
    /\ json_written = FALSE
    /\ net = <<>>
    /\ unrotated = 0
    /\ call = NoCall
    /\ faults = 0
    /\ fetched = {}
    /\ first_fetch = 0
    /\ resume = "none"
    /\ outcome = NoOutcome
    /\ saved = "none"
    /\ ended_at = "none"
    /\ file_at_start = file
    /\ prior = NoPrior

Init == InitWith(InitialFiles)

\* --------------------------------------------------------------- actions
\* What the history keeps of a run that has ended: of a run that failed at
\* the profile lookup the checkpoint file it found, of a run interrupted in
\* the publication loop the indexes it fetched and its publication count.
PriorOf ==
    CASE pc = "failed" ->
           [end |-> "failed", file |-> file_at_start, fetched |-> {}, total |-> 0]
      [] pc = "killed" /\ ended_at = "item_loop" ->
           [end |-> "killed_in_loop", file |-> Missing, fetched |-> fetched,
            total |-> total]
      [] OTHER -> [end |-> "other", file |-> Missing, fetched |-> {}, total |-> 0]

\* The script is started: module-level state is fresh, the file is kept.
StartRun ==
    /\ pc \in Ended
    /\ pc' = "probe"
    /\ FreshMemory
    /\ probe' = 1
    /\ total' = 0
    /\ fetched' = {}
    /\ ended_at' = "none"
    /\ file_at_start' = file
    /\ prior' = PriorOf
    /\ UNCHANGED <<file, call>>

\* renew_tor_circuit: True after the settle wait, False at once.
RenewOutcomes == {"renewed_waited", "renew_failed"}

\* The network operations of a step, a call of renew_tor_circuit last.
ThenRenew(ops) == {ops \o <<r>> : r \in RenewOutcomes}

\* One iteration of the probe loop whose probe is not blocked.  The loop
\* variable is not read once the loop is left: the model forgets its value.
ProbeClean ==
    /\ pc = "probe"
    /\ clean_node' = TRUE
    /\ net' = <<"exit_ip", "probe">>
    /\ pc' = "profile"
    /\ probe' = 0
    /\ attempt' = 0
    /\ UNCHANGED <<file, author, total, start_idx, idx, accs, caller, outs,
                   unrotated, call, faults, trail, resume, outcome, saved,
                   ended_at, past>>

\* ProbeBlocked with the call of renew_tor_circuit left out.
ProbeBlocked_Silent ==
    /\ pc = "probe"
    /\ net' = <<"exit_ip", "probe">>
    /\ IF probe < MAX_PROBE_ATTEMPTS
       THEN /\ probe' = probe + 1
            /\ UNCHANGED <<pc, attempt>>
       ELSE /\ pc' = "profile"
            /\ attempt' = 0
            /\ probe' = 0
    /\ UNCHANGED <<file, clean_node, author, total, start_idx, idx, accs, caller,
                   outs, unrotated, call, faults, trail, resume, outcome, saved,
                   ended_at, past>>

\* One iteration of the probe loop whose probe is blocked (or raises).
ProbeBlocked ==
    /\ pc = "probe"
    /\ net' \in ThenRenew(<<"exit_ip", "probe">>)
    /\ IF probe < MAX_PROBE_ATTEMPTS
       THEN /\ probe' = probe + 1
            /\ UNCHANGED <<pc, attempt>>
       ELSE /\ pc' = "profile"
            /\ attempt' = 0
            /\ probe' = 0
    /\ UNCHANGED <<file, clean_node, author, total, start_idx, idx, accs, caller,
                   outs, unrotated, call, faults, trail, resume, outcome, saved,
                   ended_at, past>>

\* clean_node and the loop variable of the profile loop are not read once
\* the profile loop is left: the model forgets their values there.
LoopsLeft ==
    /\ clean_node' = FALSE
    /\ attempt' = 0

\* The network operations of an iteration of the profile loop: from the
\* second attempt on renew_tor_circuit is called before the lookup.
Lookup(a) == IF a > 0 THEN {<<r, "lookup">> : r \in RenewOutcomes} ELSE {<<"lookup">>}

\* One iteration of the profile loop that ends with break, the listing
\* having one of the lengths in lengths.
ProfileFoundOf(lengths) ==
    /\ pc = "profile"
    /\ \E n \in lengths : author' = [found |-> TRUE, npubs |-> n]
    /\ net' \in Lookup(attempt)
    /\ pc' = "load"
    /\ LoopsLeft
    /\ UNCHANGED <<file, probe, total, start_idx, idx, accs, caller, outs, unrotated,
                   call, faults, trail, resume, outcome, saved, ended_at, past>>

ProfileFound == ProfileFoundOf(0..MaxPubs)

\* LastAttempt with one attempt more than MAX_RETRIES.
LastAttempt_OneMore(a) == ~(a < MAX_RETRIES)

\* One iteration of the profile loop that does not obtain the profile:
\* search_author_id returns None, fill returns no publications, or either
\* raises.  After the last one the script saves an empty checkpoint and
\* calls exit(1), from the except clause or from the test after the loop.
LastAttempt(a) == ~(a < MAX_RETRIES - 1)

ProfileMiss ==
    /\ pc = "profile"
    /\ \E how \in {"none", "nopubs", "raised"} :
          /\ net' \in Lookup(attempt)
          /\ author' = NoAuthor
          /\ IF LastAttempt(attempt)
             THEN \* how = "raised": the except clause; else the test after the loop
                  /\ pc' = "save"
                  /\ caller' = "fail"
                  /\ LoopsLeft
             ELSE /\ attempt' = attempt + 1
                  /\ UNCHANGED <<pc, caller, clean_node>>
    /\ UNCHANGED <<file, probe, total, start_idx, idx, accs, outs, unrotated, call,
                   faults, trail, resume, outcome, saved, ended_at, past>>

\* Resumes with the test of total left out.
Resumes_AnyTotal(c, t) == c # None

\* checkpoint = load_checkpoint() up to the call of save_checkpoint.  The
\* value of checkpoint is not read after these lines; resume keeps what was
\* made of it.
Resumes(c, t) == c # None /\ c.total = t

\* The history of the previous run is kept past the load only where it
\* bears on this run: it was interrupted in the publication loop of a
\* listing of the same length.
Forgotten == [end |-> "other", file |-> Missing, fetched |-> {}, total |-> 0]

Remembered(pr, t) ==
    IF pr.end = "killed_in_loop" /\ pr.total = t THEN pr ELSE Forgotten

LoadCheckpoint ==
    /\ pc = "load"
    /\ LET c == load_checkpoint(file)
           t == author.npubs
       IN  /\ total' = t
           /\ IF Resumes(c, t)
              THEN IF {"journal_papers", "conference_papers", "preprints"} \subseteq c.has
                   THEN /\ start_idx' = c.next_idx
                        /\ journal_papers' = c.journal_papers
                        /\ conference_papers' = c.conference_papers
                        /\ preprints' = c.preprints
                        /\ resume' = "resumed"
                        /\ pc' = "save"
                        /\ caller' = "init"
                        /\ UNCHANGED ended_at
                   ELSE \* KeyError at the first field that is absent, not caught
                        /\ pc' = "crashed"
                        /\ ended_at' = "load"
                        /\ resume' = "resumed"
                        /\ start_idx' = c.next_idx
                        /\ journal_papers' =
                              IF "journal_papers" \in c.has
                              THEN c.journal_papers ELSE journal_papers
                        /\ conference_papers' =
                              IF {"journal_papers", "conference_papers"} \subseteq c.has
                              THEN c.conference_papers ELSE conference_papers
                        /\ UNCHANGED <<preprints, caller>>
              ELSE /\ start_idx' = 0
                   /\ journal_papers' = <<>>
                   /\ conference_papers' = <<>>
                   /\ preprints' = <<>>
                   /\ resume' = "fresh"
                   /\ pc' = "save"
                   /\ caller' = "init"
                   /\ UNCHANGED ended_at
    /\ file_at_start' = Missing
    /\ prior' = Remembered(prior, author.npubs)
    /\ UNCHANGED <<file, loops, author, idx, outs, net, unrotated, call, faults,
                   trail, outcome, saved>>

\* What follows a call of save_checkpoint, by its caller: exit(1) after the
\* failed profile lookup, the loop after the initial save, and after the
\* save of an item the proactive rotation and the next iteration.
\* RotationDue that never asks for the proactive rotation.
RotationDue_Never(i) == FALSE

\* The test of the proactive rotation.
RotationDue(i) == i % CIRCUIT_RENEW_AFTER = 0

AfterSave ==
    /\ caller' = "none"
    /\ CASE caller = "fail" -> /\ pc' = "failed"
                               /\ UNCHANGED <<net, unrotated>>
         [] caller = "init" -> /\ pc' = "loop"
                               /\ UNCHANGED <<net, unrotated>>
         [] OTHER           -> /\ pc' = "loop"
                               /\ IF RotationDue(idx)
                                  THEN /\ net' \in ThenRenew(<<>>)
                                       /\ unrotated' = 0
                                  ELSE UNCHANGED <<net, unrotated>>

\* save_checkpoint, open(CHECKPOINT_FILE, 'w'): the file is created or
\* truncated.
SaveOpen ==
    /\ pc = "save"
    /\ file' = Garbage
    /\ pc' = "dump"
    /\ UNCHANGED <<loops, author, total, start_idx, idx, accs, caller, outs, net,
                   unrotated, call, faults, trail, resume, outcome, saved,
                   ended_at, past>>

\* save_checkpoint, open raising: caught and printed, the file is as it was.
SaveOpenFails ==
    /\ pc = "save"
    /\ faults < MaxFaults
    /\ faults' = faults + 1
    /\ saved' = "open_failed"
    /\ AfterSave
    /\ UNCHANGED <<file, loops, author, total, start_idx, idx, accs, outs, call,
                   trail, resume, outcome, ended_at, past>>

\* save_checkpoint, json.dump and the close of the file.
SaveDump ==
    /\ pc = "dump"
    /\ file' = SaveArgs
    /\ saved' = "written"
    /\ AfterSave
    /\ UNCHANGED <<loops, author, total, start_idx, idx, accs, outs, call, faults,
                   trail, resume, outcome, ended_at, past>>

\* save_checkpoint, json.dump raising: caught and printed, the file is left
\* partly written.
SaveDumpFails ==
    /\ pc = "dump"
    /\ faults < MaxFaults
    /\ faults' = faults + 1
    /\ saved' = "dump_failed"
    /\ AfterSave
    /\ UNCHANGED <<file, loops, author, total, start_idx, idx, accs, outs, call,
                   trail, resume, outcome, ended_at, past>>

\* Skipped off by one: the index before start_idx is not skipped.
Skipped_OffByOne(i) == i < start_idx

\* The head of the publication loop: enumerate(..., 1) and the test that
\* skips the indexes below start_idx.
Skipped(i) == i - 1 < start_idx

\* LoopNext that passes over every second publication of the listing.
LoopNext_StepTwo ==
    /\ pc = "loop"
    /\ IF idx >= total
       THEN /\ pc' = "write_cv"
            /\ UNCHANGED <<idx, attempt>>
       ELSE /\ idx' = idx + 2
            /\ IF Skipped(idx + 2)
               THEN UNCHANGED <<pc, attempt>>
               ELSE /\ pc' = "fetch"
                    /\ attempt' = 0
    /\ UNCHANGED <<file, probe, clean_node, author, total, start_idx, accs, caller,
                   outs, net, unrotated, call, faults, trail, resume, outcome, saved,
                   ended_at, past>>

LoopNext ==
    /\ pc = "loop"
    /\ IF idx >= total
       THEN /\ pc' = "write_cv"
            /\ UNCHANGED <<idx, attempt>>
       ELSE /\ idx' = idx + 1
            /\ IF Skipped(idx + 1)
               THEN UNCHANGED <<pc, attempt>>
               ELSE /\ pc' = "fetch"
                    /\ attempt' = 0
    /\ UNCHANGED <<file, probe, clean_node, author, total, start_idx, accs, caller,
                   outs, net, unrotated, call, faults, trail, resume, outcome, saved,
                   ended_at, past>>

\* A call of scholarly.fill(pub) is recorded in the history.
Fetching ==
    /\ fetched' = fetched \cup {idx}
    /\ first_fetch' = IF first_fetch = 0 THEN idx ELSE first_fetch

\* Returned with the checkpoint write left out for None.
Returned_NoSaveForNone(how) ==
    /\ outcome' = [item |-> idx, how |-> how]
    /\ net' = <<"fetch">>
    /\ unrotated' = unrotated + 1
    /\ attempt' = 0
    /\ IF how = "Succeeded"
       THEN pc' = "save" /\ caller' = "item"
       ELSE pc' = "loop" /\ caller' = "none"

\* process_publication returns: the loop goes on to save the checkpoint.
Returned(how) ==
    /\ outcome' = [item |-> idx, how |-> how]
    /\ net' = <<"fetch">>
    /\ unrotated' = unrotated + 1
    /\ pc' = "save"
    /\ caller' = "item"
    /\ attempt' = 0

\* process_publication, an attempt whose fetch raises: with attempts left
\* the circuit is renewed and the loop goes on, else None is returned.
FetchRaises ==
    /\ pc = "fetch"
    /\ Fetching
    /\ IF LastAttempt(attempt)
       THEN Returned("Failed-Exhausted")
       ELSE /\ attempt' = attempt + 1
            /\ net' \in ThenRenew(<<"fetch">>)
            /\ UNCHANGED <<pc, caller, outcome, unrotated>>
    /\ UNCHANGED <<file, probe, clean_node, author, total, start_idx, idx, accs,
                   outs, call, faults, resume, saved, ended_at, past>>

\* process_publication, a fetch that returns a publication without title
\* or one check_if_in_cv finds in the CV: None is returned.
FetchSkips ==
    /\ pc = "fetch"
    /\ Fetching
    /\ \E how \in {"Skipped-NoTitle", "Skipped-Duplicate"} : Returned(how)
    /\ UNCHANGED <<file, probe, clean_node, author, total, start_idx, idx, accs,
                   outs, call, faults, resume, saved, ended_at, past>>

\* Appended that appends to every accumulator it is asked about.
Appended_Always(acc, category, mine, pub_data) == Append(acc, pub_data)

\* The category of each venue text the fetches return.
Categories == [venue \in Venues |-> Category(venue)]

\* process_publication, a fetch that returns (pub_data, category), and the
\* append to the accumulator of the category.
Appended(acc, category, mine, pub_data) ==
    IF category = mine THEN Append(acc, pub_data) ELSE acc

FetchSucceeds ==
    /\ pc = "fetch"
    /\ Fetching
    /\ \E venue \in Venues :
          LET category == Categories[venue]
              pub_data == PubData(idx)
          IN  /\ preprints' = Appended(preprints, category, "preprint", pub_data)
              /\ conference_papers' =
                    Appended(conference_papers, category, "conference", pub_data)
              /\ journal_papers' =
                    IF category \notin {"preprint", "conference"}
                    THEN Append(journal_papers, pub_data) ELSE journal_papers
    /\ Returned("Succeeded")
    /\ UNCHANGED <<file, probe, clean_node, author, total, start_idx, idx, outs,
                   call, faults, resume, saved, ended_at, past>>

\* The three sorts and the write of OUTPUT_CV_FORMAT.
Sorted ==
    /\ journal_papers' = SortByYear(journal_papers)
    /\ conference_papers' = SortByYear(conference_papers)
    /\ preprints' = SortByYear(preprints)

WriteCv ==
    /\ pc = "write_cv"
    /\ Sorted
    /\ cv_written' = TRUE
    /\ pc' = "write_json"
    /\ UNCHANGED <<file, loops, author, total, start_idx, idx, caller,
                   json_written, net, unrotated, call, faults, trail, resume,
                   outcome, saved, ended_at, past>>

\* open or write of OUTPUT_CV_FORMAT raising: nothing catches it.
WriteCvFails ==
    /\ pc = "write_cv"
    /\ faults < MaxFaults
    /\ faults' = faults + 1
    /\ Sorted
    /\ pc' = "crashed"
    /\ ended_at' = "write_cv"
    /\ UNCHANGED <<file, loops, author, total, start_idx, idx, caller, outs, net,
                   unrotated, call, trail, resume, outcome, saved, past>>

\* The write of OUTPUT_JSON.
WriteJson ==
    /\ pc = "write_json"
    /\ json_written' = TRUE
    /\ pc' = "clear"
    /\ UNCHANGED <<file, loops, author, total, start_idx, idx, accs, caller,
                   cv_written, net, unrotated, call, faults, trail, resume,
                   outcome, saved, ended_at, past>>

\* open or json.dump of OUTPUT_JSON raising: nothing catches it.
WriteJsonFails ==
    /\ pc = "write_json"
    /\ faults < MaxFaults
    /\ faults' = faults + 1
    /\ pc' = "crashed"
    /\ ended_at' = "write_json"
    /\ UNCHANGED <<file, loops, author, total, start_idx, idx, accs, caller, outs,
                   net, unrotated, call, trail, resume, outcome, saved, past>>

\* clear_checkpoint that removes nothing.
clear_checkpoint_Noop(f) == f

\* clear_checkpoint, and the end of the script.
clear_checkpoint(f) == IF f.kind # "missing" THEN Missing ELSE f

ClearCheckpoint ==
    /\ pc = "clear"
    /\ file' = clear_checkpoint(file)
    /\ pc' = "done"
    /\ UNCHANGED <<loops, author, total, start_idx, idx, accs, caller, outs, net,
                   unrotated, call, faults, trail, resume, outcome, saved,
                   ended_at, past>>

\* clear_checkpoint, os.remove raising: nothing catches it.
ClearFails ==
    /\ pc = "clear"
    /\ file.kind # "missing"
    /\ faults < MaxFaults
    /\ faults' = faults + 1
    /\ pc' = "crashed"
    /\ ended_at' = "clear"
    /\ UNCHANGED <<file, loops, author, total, start_idx, idx, accs, caller, outs,
                   net, unrotated, call, trail, resume, outcome, saved, past>>

\* The process is interrupted (killed) wherever it is: its memory is gone,
\* the file stays as it is.  The history keeps where it happened and, of a
\* run interrupted in the publication loop, what it had fetched.
InItemLoop == pc \in {"loop", "fetch"} \/ (pc \in {"save", "dump"} /\ caller = "item")

Interrupt ==
    /\ pc \notin Ended
    /\ pc' = "killed"
    /\ ended_at' = IF InItemLoop THEN "item_loop" ELSE pc
    /\ FreshMemory
    /\ probe' = 0
    /\ total' = IF InItemLoop THEN total ELSE 0
    /\ fetched' = IF InItemLoop THEN fetched ELSE {}
    /\ file_at_start' = Missing
    /\ UNCHANGED <<file, prior, call>>

Next ==
    \/ StartRun
    \/ ProbeClean
    \/ ProbeBlocked
    \/ ProfileFound
    \/ ProfileMiss
    \/ LoadCheckpoint
    \/ SaveOpen
    \/ SaveOpenFails
    \/ SaveDump
    \/ SaveDumpFails
    \/ LoopNext
    \/ FetchRaises
    \/ FetchSkips
    \/ FetchSucceeds
    \/ WriteCv
    \/ WriteCvFails
    \/ WriteJson
    \/ WriteJsonFails
    \/ ClearCheckpoint
    \/ ClearFails
    \/ Interrupt

Spec == Init /\ [][Next]_vars

\* The file system never fails: the specification of the claims that are
\* about interruptions and failed runs alone.
NextReliable ==
    \/ StartRun
    \/ ProbeClean
    \/ ProbeBlocked
    \/ ProfileFound
    \/ ProfileMiss
    \/ LoadCheckpoint
    \/ SaveOpen
    \/ SaveDump
    \/ LoopNext
    \/ FetchRaises
    \/ FetchSkips
    \/ FetchSucceeds
    \/ WriteCv
    \/ WriteJson
    \/ ClearCheckpoint
    \/ Interrupt

SpecReliable == Init /\ [][NextReliable]_vars

\* ------------------------------------------------------ the long listing
\* Runs over a listing of LongPubs publications, of which those before the
\* CIRCUIT_RENEW_AFTER-th are in the existing CV, have no title or fail:
\* only the later ones add records.  No run is interrupted.
ProfileFoundLong == ProfileFoundOf({LongPubs})

FetchSucceedsLate == idx >= CIRCUIT_RENEW_AFTER /\ FetchSucceeds

NextLong ==
    \/ StartRun
    \/ ProbeClean
    \/ ProbeBlocked
    \/ ProfileFoundLong
    \/ ProfileMiss
    \/ LoadCheckpoint
    \/ SaveOpen
    \/ SaveOpenFails
    \/ SaveDump
    \/ SaveDumpFails
    \/ LoopNext
    \/ FetchRaises
    \/ FetchSkips
    \/ FetchSucceedsLate
    \/ WriteCv
    \/ WriteCvFails
    \/ WriteJson
    \/ WriteJsonFails
    \/ ClearCheckpoint
    \/ ClearFails

\* The first run finds no checkpoint or one an earlier run over the same
\* listing left at any position, with no record added so far.
InitLong ==
    InitWith({Missing} \cup {Dumped(k, LongPubs, <<>>, <<>>, <<>>) : k \in 0..LongPubs})

SpecLong == InitLong /\ [][NextLong]_vars

\* ------------------------------------------------- the helpers on their own
\* The state of the run, which a call of a helper leaves alone.  The
\* helpers are pure: one call from the initial state shows all a call does.
run == <<pc, file, loops, author, total, start_idx, idx, accs, caller, outs, net,
         unrotated, faults, trail, resume, outcome, saved, ended_at, past>>

\* Texts of up to n of the given words, a blank between two words.
WordLists(words, n) == UNION {[1..k -> words] : k \in 0..n}
Phrases(words, n)   == {Join(<<" ">>, l) : l \in WordLists(words, n)}

\* Venue texts: the words occur in the case the sources print them in.
VenueWords == {<<"a", "r", "X", "i", "v">>,
               <<"I", "E", "E", "E">>,
               <<"A", "c", "c", "e", "s", "s">>,
               <<"N", "a", "t", "u", "r", "e">>,
               <<"P", "r", "o", "c", "e", "e", "d", "i", "n", "g", "s">>,
               <<"S", "S", "R", "N">>,
               <<"L", "e", "t", "t", "e", "r", "s">>,
               <<"b", "i", "o", "R", "x", "i", "v">>}
VenueTexts == Phrases(VenueWords, MaxWords)

\* The classification of process_publication applied to a venue text.
Classify ==
    /\ call = NoCall
    /\ \E venue \in VenueTexts :
          call' = [fn |-> "classify", arg |-> venue, out |-> Category(venue)]
    /\ UNCHANGED run

\* Author texts: up to MaxAuthors of these names, the word "and" between
\* two, with one blank or more on either side.
Names == {<<<<"H", "e", "n", "r", "y">>, <<"C">>, <<"C", "r", "o", "l", "l">>>>,
          <<<<"K", "a", "o", "r", "u">>, <<"I", "k", "u", "m", "a">>>>,
          <<<<"J", "a", "n", "e">>, <<"A">>, <<"D", "o", "e">>>>,
          <<<<"P", "l", "a", "t", "o">>>>}

NameLists == UNION {[1..k -> Names] : k \in 1..MaxAuthors}

Separators == {<<" ", "a", "n", "d", " ">>,
               <<" ", " ", "a", "n", "d", " ", " ", " ">>}

AuthorText(sep, names) ==
    Join(sep, [i \in DOMAIN names |-> Join(<<" ">>, names[i])])

AuthorTexts ==
    {<<>>} \cup {AuthorText(sep, names) : sep \in Separators, names \in NameLists}

\* format_authors_initials applied to an author text.
FormatAuthors ==
    /\ call = NoCall
    /\ \E authors_str \in AuthorTexts :
          call' = [fn |-> "format_authors_initials", arg |-> authors_str,
                   out |-> format_authors_initials(authors_str)]
    /\ UNCHANGED run

\* Journal records: the fields process_publication fills that the journal
\* formatter reads, each of volume, year and pages present or empty.
JournalRecords ==
    [authors : {<<"J", "a", "n", "e", " ", "A", " ", "D", "o", "e">>,
                <<"H", "e", "n", "r", "y", " ", "C", " ", "C", "r", "o", "l", "l", " ", "a", "n", "d", " ", "K", "a", "o", "r", "u", " ", "I", "k", "u", "m", "a">>},
     title   : {<<"S", "t", "u", "d", "y", "i", "n", "g", " ", "T", "h", "i", "n", "g", "s">>},
     venue   : {<<"J", "o", "u", "r", "n", "a", "l", " ", "o", "f", " ", "E", "x", "a", "m", "p", "l", "e", "s">>},
     year    : {<<>>, <<"2", "0", "2", "3">>},
     volume  : {<<>>, <<"1", "2">>},
     pages   : {<<>>, <<"1", "-", "1", "0">>}]

\* format_journal_entry_cv_style applied to a journal record.
FormatJournal ==
    /\ call = NoCall
    /\ \E pub_data \in JournalRecords :
          call' = [fn |-> "format_journal_entry_cv_style", arg |-> pub_data,
                   out |-> format_journal_entry_cv_style(pub_data)]
    /\ UNCHANGED run

InitHelpers == InitWith({Missing})

NextHelpers ==
    \/ Classify
    \/ FormatAuthors
    \/ FormatJournal

SpecHelpers == InitHelpers /\ [][NextHelpers]_vars

\* ------------------------------------------------------------ properties
ValidCheckpoint(f) == f.kind = "dict" /\ f.has = Fields
Malformed(f)       == ~ValidCheckpoint(f)
StoredIn(f)        == <<f.journal_papers, f.conference_papers, f.preprints>>
AtInitialSave      == pc = "save" /\ caller = "init"
CrashedAtLoad      == pc = "crashed" /\ ended_at = "load"
Records            == {journal_papers[i] : i \in DOMAIN journal_papers}
                      \cup {conference_papers[i] : i \in DOMAIN conference_papers}
                      \cup {preprints[i] : i \in DOMAIN preprints}
Persisted          == Dumped(outcome.item, total, journal_papers,
                             conference_papers, preprints)

\* C1: a run that finds a checkpoint with next_idx = k whose total is the
\* observed publication count starts with start_idx = k and the three stored
\* sequences as its accumulators (the file is still the loaded one when the
\* initial save begins); the first index it fetches is k (0-based) and it
\* fetches no index below k.
C1_ResumeAtNextIdx ==
    /\ (AtInitialSave /\ ValidCheckpoint(file) /\ file.total = total)
          => /\ resume = "resumed"
             /\ start_idx = file.next_idx
             /\ accs = StoredIn(file)
    /\ resume = "resumed"
          => /\ \A i \in fetched : i - 1 >= start_idx
             /\ first_fetch # 0 => first_fetch - 1 = start_idx

C1_Witness ==
    /\ pc = "fetch"
    /\ resume = "resumed"
    /\ start_idx = 1
    /\ first_fetch = 2
    /\ Records # {}

\* C2: a run that finds a checkpoint whose total differs from the observed
\* publication count starts at index 0 with the three accumulators empty,
\* and every record it holds from then on comes from a fetch of this run.
C2_DiscardOnMismatch ==
    /\ (AtInitialSave /\ load_checkpoint(file) # None /\ file.total # total)
          => /\ resume = "fresh"
             /\ start_idx = 0
             /\ accs = <<<<>>, <<>>, <<>>>>
    /\ resume = "fresh" => \A r \in Records : r.pub \in fetched

C2_Witness ==
    /\ AtInitialSave
    /\ ValidCheckpoint(file)
    /\ file.total # total
    /\ file.next_idx > 0
    /\ StoredIn(file) # <<<<>>, <<>>, <<>>>>
    /\ Records = {}

\* C3 as amended: an item whose fetch raised on all MAX_RETRIES attempts
\* adds no record and does not end the run; the save_checkpoint call that
\* follows is made with next_idx = i and, when its write does not raise,
\* the file holds next_idx = i; the next fetch is for item i + 1.
ExhaustedItem(persisted) ==
    outcome.how = "Failed-Exhausted" =>
       /\ \A r \in Records : r.pub # outcome.item
       /\ pc = "crashed" => ended_at \in {"write_cv", "write_json", "clear"}
       /\ pc \in {"save", "dump"}
             => caller = "item" /\ idx = outcome.item
                /\ SaveArgs.next_idx = outcome.item
       /\ pc = "loop"
             => /\ idx = outcome.item
                /\ persisted => file = Persisted
                /\ outcome.item < total => ~Skipped(outcome.item + 1)
       /\ pc = "fetch" => idx = outcome.item + 1

C3_FailureDoesNotAbort == ExhaustedItem(saved = "written")

C3_Witness ==
    /\ pc = "fetch"
    /\ outcome = [item |-> 1, how |-> "Failed-Exhausted"]
    /\ idx = 2
    /\ saved = "written"
    /\ file.next_idx = 1

\* C3 as claimed: the checkpoint persisted after the exhausted item has
\* next_idx = i, whatever the write did.
C3_AsClaimed == ExhaustedItem(TRUE)

\* C4 as claimed: the run exits with failure status only when the profile
\* lookup failed on all MAX_RETRIES attempts, and a run that obtained the
\* profile ends successfully with both outputs written.
C4_AsClaimed ==
    /\ pc \in {"failed", "crashed"} => ~author.found
    /\ (pc \in {"save", "dump"} /\ caller = "fail") => ~author.found
    /\ pc = "done" => author.found /\ cv_written /\ json_written

\* C5 as claimed: after a run that failed at the profile lookup, the run
\* that observes the total T of the checkpoint (next_idx = k > 0) the failed
\* run had found resumes at k with the stored records.
C5_AsClaimed ==
    [][(/\ pc = "load"
        /\ pc' # "killed"
        /\ prior.end = "failed"
        /\ ValidCheckpoint(prior.file)
        /\ prior.file.next_idx > 0
        /\ prior.file.total = author.npubs)
       => /\ start_idx' = prior.file.next_idx
          /\ accs' = StoredIn(prior.file)]_vars

\* C6 as claimed: the run that follows an interruption in the publication
\* loop, with the same publication count, fetches again at most one of the
\* publications the interrupted run had fetched.
C6_AsClaimed ==
    (prior.end = "killed_in_loop" /\ prior.total = total)
       => Cardinality(fetched \cap prior.fetched) <= 1

\* C7 as amended: after every processed item, whatever its outcome, and
\* until the next item's fetch returns, the checkpoint file holds next_idx =
\* the 0-based index of the next item, the observed total and the three
\* accumulators, unless the write of that checkpoint raised.
AfterItem(persisted) ==
    (pc \in {"loop", "fetch"} /\ outcome.how # "none" /\ persisted)
       => /\ file = Persisted
          /\ file.next_idx = IF pc = "fetch" THEN idx - 1 ELSE idx

C7_CheckpointAfterEveryItem == AfterItem(saved = "written")

C7_Witness ==
    /\ pc = "fetch"
    /\ outcome.how \in {"Skipped-Duplicate", "Skipped-NoTitle"}
    /\ saved = "written"
    /\ idx = 2
    /\ Records = {}
    /\ file = Dumped(1, 2, <<>>, <<>>, <<>>)

\* C7 as claimed: the same, whatever the write did.
C7_AsClaimed == AfterItem(TRUE)

\* C8: the checkpoint file is removed only by the last step of a run that
\* has fetched every index from start_idx on and written both outputs, and
\* after a run that ends successfully there is no checkpoint file.
C8_RemovedOnlyOnCompletion ==
    /\ [][(file.kind # "missing" /\ file'.kind = "missing")
            => /\ pc = "clear" /\ pc' = "done"
               /\ idx = total
               /\ fetched = {i \in 1..total : i - 1 >= start_idx}
               /\ cv_written /\ json_written]_vars
    /\ [](pc = "done" => file.kind = "missing")

C8_Witness ==
    /\ pc = "done"
    /\ file.kind = "missing"
    /\ cv_written /\ json_written
    /\ total = 2
    /\ fetched = {2}

\* C9 as claimed: whatever malformed or absent checkpoint file the load
\* finds, the run goes on to the initial save with start_idx = 0 and empty
\* accumulators (the file is still the loaded one there and after a crash
\* of the load).
C9_AsClaimed ==
    (Malformed(file) /\ (AtInitialSave \/ CrashedAtLoad))
       => /\ AtInitialSave
          /\ start_idx = 0
          /\ accs = <<<<>>, <<>>, <<>>>>

\* C10 as claimed: a write of the checkpoint file or of an output artifact
\* that raises does not end the run, and leaves the accumulators as they are
\* (the sorts before the first output write apart).
C10_AsClaimed ==
    [][(faults' = faults + 1 /\ pc \in {"save", "dump", "write_cv", "write_json"})
       => /\ pc' # "crashed"
          /\ pc \in {"save", "dump"} => accs' = accs]_vars

\* C11: an item is fetched at most MAX_RETRIES times; a fetch that raises
\* while attempts remain is followed by exactly one rotation request and
\* then by the next attempt for the same item, so every retry is preceded by
\* a rotation; the last failed attempt is followed by no rotation, and a
\* fetch that returns (or the last one that raises) ends the attempts for
\* the item: process_publication is left and the checkpoint is saved.
C11_FetchRetry ==
    /\ [](pc = "fetch" => attempt \in 0..(MAX_RETRIES - 1))
    /\ [](pc = "fetch" /\ attempt > 0 => net \in ThenRenew(<<"fetch">>))
    /\ [][(pc = "fetch" /\ pc' = "fetch")
            => /\ attempt < MAX_RETRIES - 1
               /\ idx' = idx
               /\ attempt' = attempt + 1
               /\ outcome' = outcome
               /\ net' \in ThenRenew(<<"fetch">>)]_vars
    /\ [][(pc = "fetch" /\ pc' \notin {"fetch", "killed"})
            => /\ pc' = "save"
               /\ caller' = "item"
               /\ net' = <<"fetch">>
               /\ outcome'.item = idx
               /\ outcome'.how = "Failed-Exhausted" => attempt = MAX_RETRIES - 1]_vars

C11_Witness ==
    /\ pc = "save"
    /\ caller = "item"
    /\ outcome = [item |-> 2, how |-> "Failed-Exhausted"]
    /\ net = <<"fetch">>
    /\ fetched = {1, 2}

\* C12: at most MAX_PROBE_ATTEMPTS probes are made; a probe that is not
\* blocked ends the probing with clean_node set and without a rotation;
\* every blocked probe is followed by a rotation request; after the last
\* blocked probe clean_node is not set and the run goes on to the profile
\* lookup, whose first attempt requests no rotation.
C12_Prober ==
    /\ [](pc = "probe" => probe \in 1..MAX_PROBE_ATTEMPTS)
    /\ [][(pc = "probe" /\ pc' # "killed")
            => \/ /\ net' = <<"exit_ip", "probe">>
                  /\ clean_node'
                  /\ pc' = "profile"
                  /\ attempt' = 0
               \/ /\ net' \in ThenRenew(<<"exit_ip", "probe">>)
                  /\ ~clean_node'
                  /\ IF probe < MAX_PROBE_ATTEMPTS
                     THEN pc' = "probe" /\ probe' = probe + 1
                     ELSE pc' = "profile" /\ attempt' = 0]_vars
    /\ [][(pc = "profile" /\ attempt = 0 /\ pc' # "killed")
            => net' = <<"lookup">>]_vars

C12_Witness ==
    /\ pc = "profile"
    /\ ~clean_node
    /\ attempt = 0
    /\ net \in ThenRenew(<<"exit_ip", "probe">>)

\* C13: within a run the indexes fetched are, in this order, start_idx + 1,
\* start_idx + 2, ... up to the index of the loop (1-based): the loop index
\* moves one position at a time, the indexes fetched so far are all those
\* between the start index and the loop index, and a fetch is always for the
\* item of the loop index, a repeated one only while that item is retried.
C13_ListingOrder ==
    /\ [](pc \notin Ended
            => fetched = {i \in (start_idx + 1)..idx :
                             i < idx \/ ~(pc = "fetch" /\ attempt = 0)})
    /\ [][(pc \notin Ended /\ pc' \notin Ended /\ idx' # idx) => idx' = idx + 1]_vars
    /\ [][(pc \notin Ended /\ pc' \notin Ended /\ fetched' # fetched)
            => /\ pc = "fetch" /\ attempt = 0
               /\ fetched' = fetched \cup {idx}
               /\ \A i \in fetched : i < idx]_vars
    /\ [][(pc = "fetch" /\ attempt > 0 /\ pc' # "killed")
            => idx \in fetched /\ fetched' = fetched]_vars

C13_Witness ==
    /\ pc = "fetch"
    /\ attempt > 0
    /\ start_idx = 0
    /\ idx = 2
    /\ fetched = {1, 2}

\* C14: the classification is a total function of the venue text: preprint
\* when the lower-cased venue contains a preprint keyword, also when it
\* contains conference keywords; else conference when it contains a
\* conference keyword; else journal, the empty venue included.
HasKeyword(venue, keywords) ==
    \E k \in keywords :
       \E i \in 1..Len(venue) :
          /\ i + Len(k) - 1 <= Len(venue)
          /\ \A j \in 1..Len(k) : lower(<<venue[i + j - 1]>>) = <<k[j]>>

C14_Classification ==
    call.fn = "classify" =>
       /\ call.out \in {"preprint", "conference", "journal"}
       /\ call.out = "preprint" <=> HasKeyword(call.arg, PREPRINT_KEYWORDS)
       /\ call.out = "conference" <=>
             /\ ~HasKeyword(call.arg, PREPRINT_KEYWORDS)
             /\ HasKeyword(call.arg, CONFERENCE_KEYWORDS)
       /\ call.out = "journal" <=>
             /\ ~HasKeyword(call.arg, PREPRINT_KEYWORDS)
             /\ ~HasKeyword(call.arg, CONFERENCE_KEYWORDS)
       /\ call.arg = <<>> => call.out = "journal"
       /\ call.arg = <<"N", "a", "t", "u", "r", "e", " ", "L", "e", "t", "t", "e", "r", "s">>
             => call.out = "journal"
       /\ call.arg = <<"I", "E", "E", "E", " ", "A", "c", "c", "e", "s", "s">>
             => call.out = "conference"
       /\ call.arg \in {<<"a", "r", "X", "i", "v", " ", "I", "E", "E", "E">>,
                         <<"I", "E", "E", "E", " ", "a", "r", "X", "i", "v">>}
             => call.out = "preprint"

C14_Witness ==
    /\ call.fn = "classify"
    /\ call.arg = <<"P", "r", "o", "c", "e", "e", "d", "i", "n", "g", "s", " ", "b", "i", "o", "R", "x", "i", "v">>
    /\ call.out = "preprint"

\* C16: the author text is split on the separator "and"; of each name every
\* word but the last becomes its first letter and a period, the last word is
\* kept whole; two or more formatted names are joined with commas and a
\* final "and" before the last: "Henry C Croll and Kaoru Ikuma" gives
\* "H. C. Croll, and K. Ikuma".
Abbreviated(name) ==
    Join(<<" ">>, [i \in DOMAIN name |->
                     IF i < Len(name) THEN <<Head(name[i]), ".">> ELSE name[i]])

Listed(names) ==
    IF Len(names) = 1 THEN Abbreviated(names[1])
    ELSE Join(<<",", " ">>, [i \in 1..(Len(names) - 1) |-> Abbreviated(names[i])])
            \o <<",", " ", "a", "n", "d", " ">> \o Abbreviated(names[Len(names)])

C16_AuthorNames ==
    call.fn = "format_authors_initials" =>
       /\ \A sep \in Separators, names \in NameLists :
             call.arg = AuthorText(sep, names) => call.out = Listed(names)
       /\ call.arg = <<"H", "e", "n", "r", "y", " ", "C", " ", "C", "r", "o", "l", "l", " ", "a", "n", "d", " ", "K", "a", "o", "r", "u", " ", "I", "k", "u", "m", "a">>
             => call.out = <<"H", ".", " ", "C", ".", " ", "C", "r", "o", "l", "l", ",", " ", "a", "n", "d", " ", "K", ".", " ", "I", "k", "u", "m", "a">>
       /\ call.arg = <<"P", "l", "a", "t", "o">> => call.out = <<"P", "l", "a", "t", "o">>

C16_Witness ==
    /\ call.fn = "format_authors_initials"
    /\ call.arg = <<"H", "e", "n", "r", "y", " ", "C", " ", "C", "r", "o", "l", "l", " ", "a", "n", "d", " ", "K", "a", "o", "r", "u", " ", "I", "k", "u", "m", "a">>
    /\ call.out = <<"H", ".", " ", "C", ".", " ", "C", "r", "o", "l", "l", ",", " ", "a", "n", "d", " ", "K", ".", " ", "I", "k", "u", "m", "a">>

\* C15 as amended: the journal line is the authors as the author formatter
\* renders them, a period, the quoted title, the emphasized venue, then the
\* volume, the year in parentheses and a colon with the pages, each of the
\* three left out with its punctuation when empty, and a final period; the
\* record of Jane A Doe formats to
\* J. A. Doe. "Studying Things" **Journal of Examples** 12 (2023): 1-10.
JaneDoe ==
    [authors |-> <<"J", "a", "n", "e", " ", "A", " ", "D", "o", "e">>,
     title   |-> <<"S", "t", "u", "d", "y", "i", "n", "g", " ", "T", "h",
                   "i", "n", "g", "s">>,
     venue   |-> <<"J", "o", "u", "r", "n", "a", "l", " ", "o", "f", " ",
                   "E", "x", "a", "m", "p", "l", "e", "s">>,
     year    |-> <<"2", "0", "2", "3">>,
     volume  |-> <<"1", "2">>,
     pages   |-> <<"1", "-", "1", "0">>]

JaneDoeLine ==
    <<"J", ".", " ", "A", ".", " ", "D", "o", "e", ".", " ", "\"", "S", "t",
      "u", "d", "y", "i", "n", "g", " ", "T", "h", "i", "n", "g", "s",
      "\"", " ", "*", "*", "J", "o", "u", "r", "n", "a", "l", " ", "o",
      "f", " ", "E", "x", "a", "m", "p", "l", "e", "s", "*", "*", " ",
      "1", "2", " ", "(", "2", "0", "2", "3", ")", ":", " ", "1", "-",
      "1", "0", ".">>

JaneDoeLineAsClaimed ==
    <<"J", "a", "n", "e", " ", "A", " ", "D", "o", "e", ".", " ", "\"", "S",
      "t", "u", "d", "y", "i", "n", "g", " ", "T", "h", "i", "n", "g",
      "s", "\"", " ", "*", "*", "J", "o", "u", "r", "n", "a", "l", " ",
      "o", "f", " ", "E", "x", "a", "m", "p", "l", "e", "s", "*", "*",
      " ", "1", "2", " ", "(", "2", "0", "2", "3", ")", ":", " ", "1",
      "-", "1", "0", ".">>

Optional(before, field, after) ==
    IF field = <<>> THEN <<>> ELSE before \o field \o after

JournalLine(authors, r) ==
    authors \o <<".", " ", "\"">> \o r.title
       \o <<"\"", " ", "*", "*">> \o r.venue \o <<"*", "*">>
       \o Optional(<<" ">>, r.volume, <<>>)
       \o Optional(<<" ", "(">>, r.year, <<")">>)
       \o Optional(<<":", " ">>, r.pages, <<>>)
       \o <<".">>

C15_JournalLine ==
    call.fn = "format_journal_entry_cv_style" =>
       /\ call.out = JournalLine(format_authors_initials(call.arg.authors), call.arg)
       /\ call.arg = JaneDoe => call.out = JaneDoeLine

C15_Witness ==
    /\ call.fn = "format_journal_entry_cv_style"
    /\ call.arg = JaneDoe
    /\ call.out = JaneDoeLine

\* C15 as claimed: the authors of the line are the authors of the record as
\* they are, so that the record of Jane A Doe formats to
\* Jane A Doe. "Studying Things" **Journal of Examples** 12 (2023): 1-10.
C15_AsClaimed ==
    call.fn = "format_journal_entry_cv_style" =>
       /\ call.out = JournalLine(call.arg.authors, call.arg)
       /\ call.arg = JaneDoe => call.out = JaneDoeLineAsClaimed

\* C17 as claimed: between a fetch attempt of an item that raised and the
\* next attempt for the same item the settle wait of the rotation elapses,
\* also when the rotation request fails.
C17_AsClaimed ==
    [][(pc = "fetch" /\ pc' = "fetch" /\ attempt' = attempt + 1)
         => net' = <<"fetch", "renewed_waited">>]_vars

\* C18: the step that ends the save_checkpoint call of an item requests a
\* rotation exactly when the 1-based position of the item is a multiple of
\* CIRCUIT_RENEW_AFTER, whatever the outcome of the item, with the
\* checkpoint of the item (next_idx = its position) in the file when the
\* write went through; hence no run, fresh or resumed, processes more than
\* CIRCUIT_RENEW_AFTER items without a proactive rotation between them.
C18_ProactiveRotation ==
    /\ [][(pc \in {"save", "dump"} /\ caller = "item" /\ pc' = "loop")
            => /\ idx = outcome.item
               /\ IF idx % CIRCUIT_RENEW_AFTER = 0
                  THEN /\ net' \in ThenRenew(<<>>)
                       /\ unrotated' = 0
                       /\ saved' = "written"
                             => file' = Dumped(idx, total, journal_papers,
                                               conference_papers, preprints)
                  ELSE net' = net /\ unrotated' = unrotated]_vars
    /\ [](unrotated <= CIRCUIT_RENEW_AFTER)
    /\ [](pc = "fetch" =>
             \A i \in (start_idx + 1)..(idx - 1) :
                i % CIRCUIT_RENEW_AFTER = 0 => unrotated <= idx - 1 - i)

C18_Witness ==
    /\ pc = "fetch"
    /\ start_idx = 0
    /\ idx = CIRCUIT_RENEW_AFTER + 1
    /\ outcome = [item |-> CIRCUIT_RENEW_AFTER, how |-> "Succeeded"]
    /\ saved = "written"
    /\ net \in ThenRenew(<<>>)
    /\ unrotated = 0

\* C19: across runs, interruptions and resumes, every publication index has
\* at most one record in the accumulators, in exactly one of the three
\* sequences; every checkpoint the script has persisted holds at most
\* next_idx records, one at most for each index up to next_idx, and has
\* 0 <= next_idx <= total.
PubsOf(seqs) ==
    UNION {{seqs[k][i].pub : i \in DOMAIN seqs[k]} : k \in DOMAIN seqs}

Held(seqs) == Len(seqs[1]) + Len(seqs[2]) + Len(seqs[3])

C19_OneRecordPerIndex ==
    /\ Held(accs) = Cardinality(PubsOf(accs))
    /\ \A p \in PubsOf(accs) :
          Cardinality({k \in 1..3 : \E i \in DOMAIN accs[k] : accs[k][i].pub = p}) = 1
    /\ ValidCheckpoint(file) =>
          /\ 0 <= file.next_idx
          /\ file.next_idx <= file.total
          /\ Held(StoredIn(file)) <= file.next_idx
          /\ Held(StoredIn(file)) = Cardinality(PubsOf(StoredIn(file)))
          /\ PubsOf(StoredIn(file)) \subseteq 1..file.next_idx

C19_Witness ==
    /\ resume = "resumed"
    /\ prior.end = "killed_in_loop"
    /\ start_idx = 1
    /\ pc = "loop"
    /\ PubsOf(accs) = {1, 2}
    /\ ValidCheckpoint(file)
    /\ file.next_idx = 2
    /\ Held(StoredIn(file)) = 2

====
